---- MODULE Spec2Model ----
(***************************************************************************)
(* A model of bevy_erm_sqlite: the guarded connection of SqliteDatabase    *)
(* (src/src/plugin.rs), its DDL generator get_table_sql, insert / query    *)
(* and the ValueWrapper marshaler (src/src/value_to_sql_wrapper.rs).       *)
(*                                                                         *)
(* Three specifications share the definitions below:                       *)
(*   SpecDDL    get_table_sql applied to bounded table definitions;        *)
(*   Spec       the public API called by one owner (every method takes     *)
(*              &mut self, so whole calls are serialised);                 *)
(*   SpecGuard  callers interleaved at the granularity of the Mutex, the   *)
(*              interleavings the guard itself has to make safe.           *)
(* SQL text is a sequence of tokens, one token per push_str / format!      *)
(* fragment; Render concatenates the tokens into the string.               *)
(***************************************************************************)
EXTENDS Integers, Sequences, FiniteSets, TLC

VARIABLES
    connection,  \* SqliteDatabase.connection: NoConnection or a live handle
    poisoned,    \* the Mutex's poison flag (a panic while the guard was held)
    live,        \* handles of the connections the engine currently has open
    db,          \* the database file: table name -> schema and rows
    last,        \* the most recent call that returned or aborted
    pc,          \* SpecGuard: each caller's position in its call
    req,         \* SpecGuard: each caller's pending call
    holder,      \* SpecGuard: the caller holding the guard, or NoCaller
    table,       \* SpecDDL: the TableDefinition handed to get_table_sql
    ddl          \* SpecDDL: what get_table_sql returned for it

vars == <<connection, poisoned, live, db, last, pc, req, holder, table, ddl>>

\* ------------------------------------------------------------------------
\* Bounds of the model.

MaxCols == 3      \* columns per generated table definition (SpecDDL)
MaxRows == 2      \* rows per table of the database file
NumCallers == 2   \* callers sharing the database (SpecGuard)

\* ------------------------------------------------------------------------
\* Generic sequence helpers.

Range(s) == {s[i] : i \in DOMAIN s}

RECURSIVE Flatten(_)
Flatten(ss) == IF ss = <<>> THEN <<>> ELSE Head(ss) \o Flatten(Tail(ss))

\* Vec<String>::join(sep) over token sequences.
RECURSIVE JoinTokens(_, _)
JoinTokens(parts, sep) ==
    IF parts = <<>> THEN <<>>
    ELSE IF Len(parts) = 1 THEN Head(parts)
    ELSE Head(parts) \o <<sep>> \o JoinTokens(Tail(parts), sep)

\* The string a token sequence stands for.
RECURSIVE Render(_)
Render(tokens) == IF tokens = <<>> THEN "" ELSE Head(tokens) \o Render(Tail(tokens))

\* ------------------------------------------------------------------------
\* bevy_erm's SqlType / ColumnDefinition / TableDefinition, as this crate
\* consumes them.  A field declaration is one reflected struct field; a
\* TableDefinition's fields are kept in a HashMap, so fields.values() yields
\* them in an arbitrary order while `order` holds the declared position.

Field(name, kind, bits, not_null, key, max_length, ty) ==
    [name |-> name, kind |-> kind, bits |-> bits, not_null |-> not_null,
     key |-> key, max_length |-> max_length, ty |-> ty]

FieldPool == <<
    Field("id",       "Integer",         32,  TRUE,  TRUE,  0,  "i32"),
    Field("uid",      "UnsingedInteger", 64,  TRUE,  TRUE,  0,  "u64"),
    Field("deaths",   "Integer",         32,  TRUE,  FALSE, 0,  "i32"),
    Field("rank",     "Integer",         16,  FALSE, FALSE, 0,  "Option<i16>"),
    Field("big",      "Integer",         128, TRUE,  FALSE, 0,  "i128"),
    Field("score",    "UnsingedInteger", 32,  TRUE,  FALSE, 0,  "u32"),
    Field("level",    "UnsingedInteger", 8,   FALSE, FALSE, 0,  "Option<u8>"),
    Field("speed",    "Float",           32,  TRUE,  FALSE, 0,  "f32"),
    Field("mass",     "Float",           64,  FALSE, FALSE, 0,  "Option<f64>"),
    Field("half",     "Float",           16,  TRUE,  FALSE, 0,  "f16"),
    Field("name",     "Text",            0,   TRUE,  FALSE, 0,  "String"),
    Field("email",    "Text",            0,   FALSE, FALSE, 0,  "Option<String>"),
    Field("tag",      "Text",            0,   TRUE,  FALSE, 16, "String"),
    Field("born",     "Date",            0,   TRUE,  FALSE, 0,  "Date"),
    Field("at",       "Time",            0,   FALSE, FALSE, 0,  "Time"),
    Field("seen",     "DateTime",        0,   TRUE,  FALSE, 0,  "DateTime"),
    Field("position", "Blob",            0,   TRUE,  FALSE, 0,  "Vec3"),
    Field("rotation", "Blob",            0,   FALSE, FALSE, 0,  "Option<Quat>"),
    Field("alive",    "Boolean",         0,   TRUE,  FALSE, 0,  "bool"),
    Field("banned",   "Boolean",         0,   FALSE, FALSE, 0,  "Option<bool>"),
    Field("owner",    "One2One",         0,   TRUE,  FALSE, 0,  "Entity"),
    Field("friends",  "Many2Many",       0,   FALSE, FALSE, 0,  "Vec<Entity>"),
    Field("unknown",  "None",            0,   FALSE, FALSE, 0,  "()")
>>

\* ColumnDefinition of field f declared at position `order` of its struct.
Column(f, order) ==
    [sql_name |-> f.name, rust_name |-> f.name,
     sql_type |-> [kind |-> f.kind, bits |-> f.bits, not_null |-> f.not_null],
     order |-> order, key |-> f.key, max_length |-> f.max_length, ty |-> f.ty]

is_key(def) == def.key
has_max_length(def) == def.max_length > 0
get_max_length(def) == def.max_length

\* The TableDefinition of a struct whose fields are the pool entries `stored`
\* (a sequence of pool indices without repetition): declared in pool order,
\* held in the map in the order of `stored`.
TableOf(sql_name, pool, stored) ==
    [sql_name |-> sql_name,
     fields |-> [i \in DOMAIN stored |->
        Column(pool[stored[i]],
               Cardinality({j \in Range(stored) : j < stored[i]}))]]

\* Every way to pick at most n distinct pool entries and to store them.
Storings(pool, n) ==
    {s \in UNION {[1..k -> DOMAIN pool] : k \in 0..n} :
        /\ \A i, j \in DOMAIN s : i # j => s[i] # s[j]
        /\ Cardinality({i \in DOMAIN s : pool[s[i]].key}) <= 1}

TableDefinitions ==
    {TableOf("Sample", FieldPool, s) : s \in Storings(FieldPool, MaxCols)}

\* ------------------------------------------------------------------------
\* get_table_sql (plugin.rs 280-365).

\* sorted.sort_by(|a, b| a.order.cmp(&b.order)): a stable sort.
RECURSIVE InsertByOrder(_, _)
InsertByOrder(sorted, def) ==
    IF sorted = <<>> THEN <<def>>
    ELSE IF Head(sorted).order <= def.order
         THEN <<Head(sorted)>> \o InsertByOrder(Tail(sorted), def)
         ELSE <<def>> \o sorted

RECURSIVE StableSortByOrder(_)
StableSortByOrder(fields) ==
    IF fields = <<>> THEN <<>>
    ELSE InsertByOrder(StableSortByOrder(SubSeq(fields, 1, Len(fields) - 1)),
                       fields[Len(fields)])

\* A variant without the sort: fields.values() as the map yields them.
KeepStoredOrder(fields) == fields

SortedColumns(fields) == StableSortByOrder(fields)

NotNullTokens(not_null) == IF not_null THEN <<" NOT NULL">> ELSE <<>>

\* The kinds whose match arm is todo!().
UnimplementedKinds == {"None", "One2One", "Many2Many"}

\* One iteration of the loop: the clause pushed for `def`.
ColumnClause(def) ==
    LET name == def.sql_name
        nn == NotNullTokens(def.sql_type.not_null)
        kind == def.sql_type.kind
    IN  CASE kind = "Integer" ->
                IF is_key(def)
                THEN <<name, " INTEGER PRIMARY KEY AUTOINCREMENT">>
                ELSE <<name, " INTEGER">> \o nn
          [] kind = "UnsingedInteger" ->
                \* format!(" CHECK({column} >= 0)") interpolates the clause
                \* built so far, not the column's name.
                LET column == <<name, " INTEGER">> \o nn
                IN  column \o <<" CHECK(">> \o column \o <<" >= 0)">>
          [] kind = "Float" -> <<name, " REAL">> \o nn
          [] kind = "Text" ->
                (IF has_max_length(def)
                 THEN <<name, " VARCHAR(" \o ToString(get_max_length(def)) \o ")">>
                 ELSE <<name, " TEXT">>) \o nn
          [] kind = "Date" -> <<name, " TEXT">> \o nn
          [] kind = "Time" -> <<name, " REAL">> \o nn
          [] kind = "DateTime" -> <<name, " TEXT">> \o nn
          [] kind = "Blob" -> <<name, " BLOB">> \o nn
          [] kind = "Boolean" ->
                <<name, " INTEGER">> \o nn
                    \o <<" CHECK(", name, " >= 0 AND ", name, " < 2)">>

\* A variant joining the clauses with a bare comma.
BareComma == ","

\* columns.join(",\n").
ClauseSeparator == ",\n"

TableSql(table_name, sorted) ==
    IF \E i \in DOMAIN sorted : sorted[i].sql_type.kind \in UnimplementedKinds
    THEN [status |-> "abort", sql |-> <<>>]
    ELSE [status |-> "Ok",
          sql |-> <<"CREATE TABLE '", table_name, "'(">>
                  \o JoinTokens([i \in DOMAIN sorted |-> ColumnClause(sorted[i])],
                                ClauseSeparator)
                  \o <<");">>]

get_table_sql(t) == TableSql(t.sql_name, SortedColumns(t.fields))

\* ------------------------------------------------------------------------
\* The SQLite engine behind rusqlite, as far as this crate drives it: the
\* statements it is handed, whether prepare accepts them, and what running
\* them does to the database file.

\* Option<Connection>::None; the engine numbers its handles from 1.
NoConnection == 0
GoodPath == "test.sqlite"
BadPath == "missing_dir/test.sqlite"
Paths == {GoodPath, BadPath}

\* Connection::open(path): the file is created when missing; a path whose
\* directory does not exist cannot be opened.
CanConnect(path) == path = GoodPath

NewHandle(handles) == CHOOSE h \in 1..(Cardinality(handles) + 1) : h \notin handles

\* A database file without tables.
EmptyDb == [n \in {} |-> <<>>]

SqlInteger(v) == [t |-> "Integer", v |-> v]
SqlReal(v) == [t |-> "Real", v |-> v]
SqlText(v) == [t |-> "Text", v |-> v]
SqlBlob(v) == [t |-> "Blob", v |-> v]
SqlNull == [t |-> "Null", v |-> 0]

\* Statements, by shape.
DdlStmt(sql) == [kind |-> "ddl", sql |-> sql]
InsertStmt(table_name, column_names, parameter) ==
    [kind |-> "insert", table |-> table_name, columns |-> column_names,
     placeholders |-> parameter]
SelectAll(table_name) == [kind |-> "select", table |-> table_name, where |-> <<>>]
SelectWhere(table_name, column, value) ==
    [kind |-> "select", table |-> table_name, where |-> <<column, value>>]
CountTables(table_name) == [kind |-> "count_tables", name |-> table_name]
Malformed == [kind |-> "malformed"]

\* Splitting a clause list at the comma tokens (white space is insignificant).
CommaTokens == {",", ",\n"}

RECURSIVE SplitOn(_, _)
SplitOn(tokens, seps) ==
    IF tokens = <<>> THEN << <<>> >>
    ELSE LET rest == SplitOn(Tail(tokens), seps)
         IN  IF Head(tokens) \in seps
             THEN << <<>> >> \o rest
             ELSE << <<Head(tokens)>> \o Head(rest) >> \o Tail(rest)

MaxVarchar == 16

TypeTokens ==
    {" INTEGER", " REAL", " TEXT", " BLOB"}
        \cup {" VARCHAR(" \o ToString(n) \o ")" : n \in 1..MaxVarchar}

\* One column clause of CREATE TABLE as the engine's grammar reads it.
ParseColumn(clause) ==
    IF Len(clause) < 2 THEN [ok |-> FALSE]
    ELSE
    LET name == clause[1]
        pk == clause[2] = " INTEGER PRIMARY KEY AUTOINCREMENT"
        afterType == SubSeq(clause, 3, Len(clause))
        nn == afterType # <<>> /\ Head(afterType) = " NOT NULL"
        afterNull == IF nn THEN Tail(afterType) ELSE afterType
        check == CASE afterNull = <<>> -> "none"
                   [] afterNull = <<" CHECK(", name, " >= 0)">> -> "nonneg"
                   [] afterNull = <<" CHECK(", name, " >= 0 AND ", name, " < 2)">> -> "bool"
                   [] OTHER -> "syntax error"
    IN  IF (pk \/ clause[2] \in TypeTokens) /\ check # "syntax error"
           /\ (pk => afterType = <<>>)
        THEN [ok |-> TRUE, name |-> name, decl |-> clause[2], pk |-> pk,
              not_null |-> nn, check |-> check]
        ELSE [ok |-> FALSE]

ParsedTable(name, cols) ==
    IF /\ \A i \in DOMAIN cols : cols[i].ok
       /\ \A i, j \in DOMAIN cols : i # j => cols[i].name # cols[j].name
    THEN [ok |-> TRUE, name |-> name, columns |-> cols]
    ELSE [ok |-> FALSE]

ParseClauses(clauses) == [i \in DOMAIN clauses |-> ParseColumn(clauses[i])]

ParseCreate(sql) ==
    IF Len(sql) < 4 \/ sql[1] # "CREATE TABLE '" \/ sql[3] # "'("
       \/ sql[Len(sql)] # ");"
    THEN [ok |-> FALSE]
    ELSE ParsedTable(sql[2],
            ParseClauses(SplitOn(SubSeq(sql, 4, Len(sql) - 1), CommaTokens)))

ColumnNames(tbl) == [i \in DOMAIN tbl.columns |-> tbl.columns[i].name]

CreatesNewTable(d, p) == p.ok /\ p.name \notin DOMAIN d

\* sqlite3_prepare: does the statement compile against the schema?
PrepareOk(d, stmt) ==
    CASE stmt.kind = "ddl" -> CreatesNewTable(d, ParseCreate(stmt.sql))
      [] stmt.kind = "insert" ->
            /\ stmt.table \in DOMAIN d
            /\ stmt.columns # <<>>
            /\ Len(stmt.placeholders) = Len(stmt.columns)
            /\ Range(stmt.columns) \subseteq Range(ColumnNames(d[stmt.table]))
            /\ \A i, j \in DOMAIN stmt.columns :
                    i # j => stmt.columns[i] # stmt.columns[j]
      [] stmt.kind = "select" ->
            /\ stmt.table \in DOMAIN d
            /\ stmt.where # <<>>
                    => stmt.where[1] \in Range(ColumnNames(d[stmt.table]))
      [] stmt.kind = "count_tables" -> TRUE
      [] OTHER -> FALSE

\* sqlite3_bind_parameter_count.
ParameterCount(stmt) == IF stmt.kind = "insert" THEN Len(stmt.placeholders) ELSE 0

\* ------------------------------------------------------------------------
\* Reflected values.  A value is [ty, v]: its runtime type and its content
\* (numbers as integers, vectors as the sequence of their components).  An
\* instance is [type, fields], fields mapping field name to value.

Val(ty, v) == [ty |-> ty, v |-> v]

IntegerTypes == {"u8", "u16", "u32", "u64", "i8", "i16", "i32", "i64"}
FloatTypes == {"f32", "f64"}
TextTypes == {"String", "&str"}
BlobTypes == {"Vec2", "Vec3", "Vec4", "UVec2", "UVec3", "UVec4",
              "IVec2", "IVec3", "IVec4", "Quat", "Srgba"}

\* bevy_erm's IntoBlob / FromBlob: the components in order, one fixed-size
\* group of bytes each.
Components(ty) ==
    CASE ty \in {"Vec2", "UVec2", "IVec2"} -> 2
      [] ty \in {"Vec3", "UVec3", "IVec3"} -> 3
      [] OTHER -> 4

into_blob(ty, v) == [i \in 1..Components(ty) |-> [bytes_of |-> v[i]]]

from_blob(ty, bytes) == [i \in 1..Components(ty) |-> bytes[i].bytes_of]

\* Integers as Rust holds them.  A value is its sign and its magnitude, the
\* magnitude and every bit pattern being eight bytes, most significant first,
\* so that all of u64 and i64 is within reach.
ByteBase == 2^8
I64Bytes == 64 \div 8

Wide(neg, mag) == [neg |-> neg, mag |-> mag]

Filled(n, byte) == [i \in 1..n |-> byte]

UnsignedTypes == {"u8", "u16", "u32", "u64"}

WidthBytes(ty) ==
    CASE ty \in {"u8", "i8"} -> 1
      [] ty \in {"u16", "i16"} -> 2
      [] ty \in {"u32", "i32"} -> 4
      [] ty \in {"u64", "i64"} -> 8

\* bits + 1, modulo 2^(8 * Len(bits)).
RECURSIVE Increment(_)
Increment(bits) ==
    IF bits = <<>> THEN <<>>
    ELSE IF bits[Len(bits)] < ByteBase - 1
         THEN [bits EXCEPT ![Len(bits)] = @ + 1]
         ELSE Append(Increment(SubSeq(bits, 1, Len(bits) - 1)), 0)

\* Two's complement negation.
Negate(bits) == Increment([i \in DOMAIN bits |-> ByteBase - 1 - bits[i]])

\* The 64-bit pattern of a value.
Bits64(x) == IF x.neg THEN Negate(x.mag) ELSE x.mag

\* The value an i64 of that pattern has.
I64Value(bits) ==
    IF bits[1] >= ByteBase \div 2 THEN Wide(TRUE, Negate(bits)) ELSE Wide(FALSE, bits)

\* The low bytes a value of type ty occupies, widened to 64 bits: with zeros
\* for an unsigned type, with copies of the sign bit for a signed one.
Widen(ty, bits) ==
    LET low == SubSeq(bits, I64Bytes - WidthBytes(ty) + 1, I64Bytes)
        fill == IF ty \notin UnsignedTypes /\ low[1] >= ByteBase \div 2
                THEN ByteBase - 1 ELSE 0
    IN  Filled(I64Bytes - WidthBytes(ty), fill) \o low

\* `x as i64` on the field's value (value_to_sql_wrapper.rs 40-87).
WideAsI64(ty, x) == I64Value(Widen(ty, Bits64(x)))

\* rusqlite's FromSql for an integer type: the stored i64 converts when it
\* is a value of the type, and is out of range otherwise.
WideFromSql(ty, x) ==
    [ok |-> Widen(ty, Bits64(x)) = Bits64(x) /\ (ty \in UnsignedTypes => ~x.neg),
     v |-> x]

\* The integers of this model's rows, between -2^31 and 2^31, as wide values
\* and back.
RECURSIVE ToBytes(_, _)
ToBytes(n, len) ==
    IF len = 0 THEN <<>> ELSE Append(ToBytes(n \div ByteBase, len - 1), n % ByteBase)

RECURSIVE FromBytes(_)
FromBytes(bytes) ==
    IF bytes = <<>> THEN 0
    ELSE FromBytes(SubSeq(bytes, 1, Len(bytes) - 1)) * ByteBase + bytes[Len(bytes)]

ToWide(v) == IF v < 0 THEN Wide(TRUE, ToBytes(-v, I64Bytes)) ELSE Wide(FALSE, ToBytes(v, I64Bytes))

FromWide(x) == IF x.neg THEN -FromBytes(x.mag) ELSE FromBytes(x.mag)

AsI64(ty, v) == FromWide(WideAsI64(ty, ToWide(v)))

\* ValueWrapper::build (value_to_sql_wrapper.rs 13-32): both lookups unwrap.
ValueWrapperBuild(value, field_name, registry) ==
    IF value.type \notin registry \/ field_name \notin DOMAIN value.fields
    THEN [ok |-> FALSE]
    ELSE [ok |-> TRUE, reg_type |-> value.type, getter |-> value.fields[field_name]]

\* <ValueWrapper as ToSql>::to_sql (value_to_sql_wrapper.rs 35-186).
to_sql(w) ==
    LET ty == w.getter.ty
        v == w.getter.v
    IN  CASE ty \in IntegerTypes -> [ok |-> TRUE, value |-> SqlInteger(AsI64(ty, v))]
          [] ty \in FloatTypes -> [ok |-> TRUE, value |-> SqlReal(v)]
          [] ty \in TextTypes -> [ok |-> TRUE, value |-> SqlText(v)]
          [] ty \in BlobTypes -> [ok |-> TRUE, value |-> SqlBlob(into_blob(ty, v))]
          [] OTHER -> [ok |-> FALSE]

\* rusqlite's FromSql for the type row.get_unwrap::<_, T> asks for.
FromSql(ty, sv) ==
    CASE ty \in {"i8"} -> [ok |-> sv.t = "Integer" /\ sv.v \in -128..127, v |-> sv.v]
      [] ty \in {"i16"} -> [ok |-> sv.t = "Integer" /\ sv.v \in -32768..32767, v |-> sv.v]
      [] ty \in {"i32", "i64"} -> [ok |-> sv.t = "Integer", v |-> sv.v]
      [] ty \in {"u8"} -> [ok |-> sv.t = "Integer" /\ sv.v \in 0..255, v |-> sv.v]
      [] ty \in {"u16"} -> [ok |-> sv.t = "Integer" /\ sv.v \in 0..65535, v |-> sv.v]
      [] ty \in {"u32", "u64"} -> [ok |-> sv.t = "Integer" /\ sv.v >= 0, v |-> sv.v]
      [] ty \in FloatTypes -> [ok |-> sv.t \in {"Real", "Integer"}, v |-> sv.v]
      [] ty = "String" -> [ok |-> sv.t = "Text", v |-> sv.v]
      [] ty = "Vec<u8>" -> [ok |-> sv.t = "Blob", v |-> sv.v]
      [] ty = "bool" -> [ok |-> sv.t = "Integer", v |-> sv.v # 0]
      [] OTHER -> [ok |-> FALSE, v |-> 0]

\* ------------------------------------------------------------------------
\* Running a compiled statement (sqlite3_step).

PkValues(tbl) ==
    {tbl.rows[r][c].v : r \in DOMAIN tbl.rows,
                        c \in {k \in DOMAIN tbl.columns : tbl.columns[k].pk}}

NextRowid(tbl) ==
    IF PkValues(tbl) = {} THEN 1
    ELSE (CHOOSE m \in PkValues(tbl) : \A x \in PkValues(tbl) : x <= m) + 1

\* The row an INSERT stores: bound values for the listed columns, the next
\* rowid for an unlisted INTEGER PRIMARY KEY, NULL for the rest.
NewRow(tbl, stmt, bound) ==
    [c \in DOMAIN tbl.columns |->
        LET name == tbl.columns[c].name
        IN  IF \E i \in DOMAIN stmt.columns : stmt.columns[i] = name
            THEN bound[CHOOSE i \in DOMAIN stmt.columns : stmt.columns[i] = name]
            ELSE IF tbl.columns[c].pk THEN SqlInteger(NextRowid(tbl))
            ELSE SqlNull]

ConstraintsOk(tbl, row) ==
    \A c \in DOMAIN tbl.columns :
        LET col == tbl.columns[c]
            x == row[c]
        IN  /\ (col.not_null \/ col.pk) => x.t # "Null"
            /\ col.pk => x.v \notin PkValues(tbl)
            /\ (col.check = "nonneg" /\ x.t = "Integer") => x.v >= 0
            /\ (col.check = "bool" /\ x.t = "Integer") => x.v \in {0, 1}

Matches(tbl, row, where) ==
    \/ where = <<>>
    \/ \E c \in DOMAIN tbl.columns :
            tbl.columns[c].name = where[1] /\ row[c] = where[2]

RECURSIVE SelectRows(_, _, _)
SelectRows(tbl, rows, where) ==
    IF rows = <<>> THEN <<>>
    ELSE (IF Matches(tbl, Head(rows), where) THEN <<Head(rows)>> ELSE <<>>)
            \o SelectRows(tbl, Tail(rows), where)

\* The outcome of running `stmt` with the bound values: whether the engine
\* reports success, the changed-row count, the file afterwards, the result
\* set (column names and rows).
StepCreate(d, p) ==
    [ok |-> TRUE, changes |-> 0, names |-> <<>>, rows |-> <<>>,
     db |-> [n \in DOMAIN d \cup {p.name} |->
                IF n = p.name THEN [columns |-> p.columns, rows |-> <<>>] ELSE d[n]]]

StepInsert(d, stmt, tbl, row) ==
    IF ConstraintsOk(tbl, row)
    THEN [ok |-> TRUE, changes |-> 1, names |-> <<>>, rows |-> <<>>,
          db |-> [d EXCEPT ![stmt.table].rows = Append(@, row)]]
    ELSE [ok |-> FALSE, changes |-> 0, names |-> <<>>, rows |-> <<>>, db |-> d]

StepSelect(d, tbl, where) ==
    [ok |-> TRUE, changes |-> 0, names |-> ColumnNames(tbl),
     rows |-> SelectRows(tbl, tbl.rows, where), db |-> d]

Step(d, stmt, bound) ==
    CASE stmt.kind = "ddl" -> StepCreate(d, ParseCreate(stmt.sql))
      [] stmt.kind = "insert" ->
            StepInsert(d, stmt, d[stmt.table], NewRow(d[stmt.table], stmt, bound))
      [] stmt.kind = "select" -> StepSelect(d, d[stmt.table], stmt.where)
      [] stmt.kind = "count_tables" ->
            [ok |-> TRUE, changes |-> 0, names |-> <<"Tables">>,
             rows |-> << <<SqlInteger(IF stmt.name \in DOMAIN d THEN 1 ELSE 0)>> >>,
             db |-> d]

\* ------------------------------------------------------------------------
\* The structs the host application registers, and their table definitions.

PlayerFields == <<
    Field("id",     "Integer", 32, TRUE, TRUE,  0, "i32"),
    Field("name",   "Text",    0,  TRUE, FALSE, 0, "String"),
    Field("deaths", "Integer", 32, TRUE, FALSE, 0, "i32"),
    Field("email",  "Text",    0,  TRUE, FALSE, 0, "String")
>>

\* The Player TableDefinition in every order its map may hold the columns.
PlayerDefinitions ==
    {TableOf("Player", PlayerFields, s) :
        s \in {x \in Storings(PlayerFields, Len(PlayerFields)) :
                    Len(x) = Len(PlayerFields)}}

PoseFields == <<
    Field("id",       "Integer", 32, TRUE, TRUE,  0, "i32"),
    Field("label",    "Text",    0,  TRUE, FALSE, 0, "String"),
    Field("position", "Blob",    0,  TRUE, FALSE, 0, "Vec3"),
    Field("rotation", "Blob",    0,  TRUE, FALSE, 0, "Quat")
>>

\* A struct holding a field of a type to_sql has no arm for.
FlagFields == <<
    Field("id",    "Integer", 32, TRUE, TRUE,  0, "i32"),
    Field("alive", "Boolean", 0,  TRUE, FALSE, 0, "bool")
>>

Structs == [Player |-> PlayerFields, Pose |-> PoseFields, Flag |-> FlagFields]

AppTypeRegistry == DOMAIN Structs

\* The definitions the registry hands out: the same columns, in the map's
\* iteration order of the day.
ApiDefinitions ==
    {TableOf("Player", PlayerFields, s) : s \in {<<1, 2, 3, 4>>, <<3, 1, 4, 2>>}}
        \cup {TableOf("Pose", PoseFields, s) : s \in {<<4, 2, 1, 3>>}}
        \cup {TableOf("Flag", FlagFields, s) : s \in {<<2, 1>>}}

\* <T as Default>::default().
DefaultOf(ty) ==
    CASE ty \in IntegerTypes \cup FloatTypes -> Val(ty, 0)
      [] ty \in TextTypes -> Val(ty, "")
      [] ty = "bool" -> Val(ty, FALSE)
      [] ty = "Quat" -> Val(ty, <<0, 0, 0, 1>>)
      [] ty \in BlobTypes -> Val(ty, [i \in 1..Components(ty) |-> 0])
      [] OTHER -> Val(ty, "None")

DefaultInstance(T) ==
    [type |-> T,
     fields |-> [n \in {Structs[T][i].name : i \in DOMAIN Structs[T]} |->
        DefaultOf((CHOOSE f \in Range(Structs[T]) : f.name = n).ty)]]

Player(deaths, name, email) ==
    [DefaultInstance("Player") EXCEPT
        !.fields.deaths = Val("i32", deaths),
        !.fields.name = Val("String", name),
        !.fields.email = Val("String", email)]

Pose(label, position, rotation) ==
    [DefaultInstance("Pose") EXCEPT
        !.fields.label = Val("String", label),
        !.fields.position = Val("Vec3", position),
        !.fields.rotation = Val("Quat", rotation)]

Flag(alive) ==
    [DefaultInstance("Flag") EXCEPT !.fields.alive = Val("bool", alive)]

Instances ==
    {Player(10, "Runna vom Sofa", "test_1@testen.com"),
     Player(100, "Timo Beil", "test_3@testen.com"),
     Pose("spawn", <<1, 2, 3>>, <<1, 0, 0, 0>>),
     Flag(TRUE)}

\* ------------------------------------------------------------------------
\* SqliteDatabase (plugin.rs 13-424).  Each operation maps the state it finds,
\* st = [connection, live, db, poisoned], to what the caller gets back, the
\* state it leaves, and the statements it handed to Connection::prepare.

Ok(v) == [status |-> "Ok", value |-> v]
Err(msg) == [status |-> "Err", value |-> msg]
Abort == [status |-> "abort", value |-> "panic"]

Out(result, st, ran) == [result |-> result, st |-> st, ran |-> ran]

\* A panic while the MutexGuard is alive poisons the Mutex.
PanicUnderGuard(st, ran) == Out(Abort, [st EXCEPT !.poisoned = TRUE], ran)

Ran(stmt, parameter) == [stmt |-> stmt, params |-> parameter]

Some(v) == [some |-> TRUE, v |-> v]
None == [some |-> FALSE, v |-> 0]

\* A variant in which the missing connection goes unnoticed.
NotConnectedSucceeds(st) == Out(Ok(0), st, <<>>)

\* `None => todo!()` in execute, query_scalar and query: the connection is
\* missing and the guard is held.
NotConnected(st) == PanicUnderGuard(st, <<>>)

\* Replacing or taking the Option's content drops the Connection it held.
DropConnection(st) == st.live \ {st.connection}

Dropped(st) == DropConnection(st)

\* A variant of open that stores None before it connects.
OpenClearsOnFailure(st, path) ==
    IF st.poisoned THEN Out(Ok("()"), st, <<>>)
    ELSE IF ~CanConnect(path)
    THEN Out(Err("Could not open database connection"),
             [st EXCEPT !.connection = NoConnection, !.live = Dropped(st)], <<>>)
    ELSE LET con == NewHandle(st.live)
         IN  Out(Ok("()"),
                 [st EXCEPT !.connection = con, !.live = Dropped(st) \cup {con}],
                 <<>>)

\* open (plugin.rs 15-25).
open(st, path) ==
    IF st.poisoned THEN Out(Ok("()"), st, <<>>)
    ELSE IF ~CanConnect(path)
    THEN Out(Err("Could not open database connection"), st, <<>>)
    ELSE LET con == NewHandle(st.live)
         IN  Out(Ok("()"),
                 [st EXCEPT !.connection = con, !.live = Dropped(st) \cup {con}],
                 <<>>)

\* sqlite3_close reports busy only while statements of the connection are
\* not finalized; every operation drops its Statement before it returns.
CloseIsBusy(con) == FALSE

\* close (plugin.rs 28-42).
close(st) ==
    IF st.poisoned THEN Out(Abort, st, <<>>)
    ELSE IF st.connection = NoConnection THEN Out(Ok("()"), st, <<>>)
    ELSE LET taken == [st EXCEPT !.connection = NoConnection, !.live = Dropped(st)]
         IN  IF CloseIsBusy(st.connection)
             THEN Out(Err("Could not close database connection."), taken, <<>>)
             ELSE Out(Ok("()"), taken, <<>>)

\* Statement::bind_parameters: to_sql is called for the leading parameters
\* the statement has a slot for; the count is compared afterwards.
BoundSlots(stmt, parameter) ==
    1..(IF Len(parameter) < ParameterCount(stmt)
        THEN Len(parameter) ELSE ParameterCount(stmt))

BindPanics(stmt, parameter) ==
    \E i \in BoundSlots(stmt, parameter) : ~to_sql(parameter[i]).ok

BoundValues(stmt, parameter) ==
    [i \in BoundSlots(stmt, parameter) |-> to_sql(parameter[i]).value]

\* execute (plugin.rs 45-59).
Executed(st, ran, r) ==
    IF r.ok THEN Out(Ok(r.changes), [st EXCEPT !.db = r.db], ran)
    ELSE Out(Err("constraint failed"), st, ran)

ExecuteOn(st, query, parameter, ran) ==
    IF ~PrepareOk(st.db, query) THEN PanicUnderGuard(st, ran)
    ELSE IF BindPanics(query, parameter) THEN PanicUnderGuard(st, ran)
    ELSE IF Len(parameter) # ParameterCount(query)
    THEN Out(Err("Wrong number of parameters passed to query"), st, ran)
    ELSE Executed(st, ran, Step(st.db, query, BoundValues(query, parameter)))

execute(st, query, parameter) ==
    IF st.poisoned THEN Out(Err("poisoned lock: another task failed inside"), st, <<>>)
    ELSE IF st.connection = NoConnection THEN NotConnected(st)
    ELSE ExecuteOn(st, query, parameter, <<Ran(query, parameter)>>)

\* query_scalar::<T> (plugin.rs 62-79).
ScalarGot(st, ran, got) ==
    IF got.ok THEN Out(Ok(Some(got.v)), st, ran)
    ELSE Out(Err("invalid column type"), st, ran)

\* A variant that keeps stepping and returns the last row.
ScalarLastRow(st, T, ran, r) ==
    IF r.rows = <<>> THEN Out(Ok(None), st, ran)
    ELSE ScalarGot(st, ran, FromSql(T, r.rows[Len(r.rows)][1]))

\* query_row(..).optional(): the first row, or None without rows.
ScalarRow(st, T, ran, r) ==
    IF r.rows = <<>> THEN Out(Ok(None), st, ran)
    ELSE ScalarGot(st, ran, FromSql(T, r.rows[1][1]))

ScalarOn(st, T, query, parameter, ran) ==
    IF ~PrepareOk(st.db, query) THEN Out(Err("prepare failed"), st, ran)
    ELSE IF BindPanics(query, parameter) THEN PanicUnderGuard(st, ran)
    ELSE IF Len(parameter) # ParameterCount(query)
    THEN Out(Err("Wrong number of parameters passed to query"), st, ran)
    ELSE ScalarRow(st, T, ran, Step(st.db, query, BoundValues(query, parameter)))

query_scalar(st, T, query, parameter) ==
    IF st.poisoned THEN Out(Abort, st, <<>>)
    ELSE IF st.connection = NoConnection THEN NotConnected(st)
    ELSE ScalarOn(st, T, query, parameter, <<Ran(query, parameter)>>)

\* ------------------------------------------------------------------------
\* query::<T> (plugin.rs 81-264): the row closure.

\* table_def.get(name).
TableGet(table_def, name) ==
    LET hits == {i \in DOMAIN table_def.fields :
                    table_def.fields[i].sql_name = name
                        \/ table_def.fields[i].rust_name = name}
    IN  IF hits = {} THEN [found |-> FALSE]
        ELSE [found |-> TRUE, col |-> table_def.fields[CHOOSE i \in hits : TRUE]]

\* The Rust type the match arm reads the column as; "panic" where the arm
\* is panic!() or todo!().
ReadType(sql_type) ==
    CASE sql_type.kind = "Integer" /\ sql_type.bits \in {8, 16, 32, 64} ->
            "i" \o ToString(sql_type.bits)
      [] sql_type.kind = "UnsingedInteger" /\ sql_type.bits \in {8, 16, 32, 64} ->
            "u" \o ToString(sql_type.bits)
      [] sql_type.kind = "Float" /\ sql_type.bits \in {32, 64} ->
            "f" \o ToString(sql_type.bits)
      [] sql_type.kind = "Text" -> "String"
      [] sql_type.kind = "Blob" -> "Vec<u8>"
      [] sql_type.kind = "Boolean" -> "bool"
      [] OTHER -> "panic"

Optional(ty, not_null) == IF not_null THEN ty ELSE "Option<" \o ty \o ">"

\* What one result column adds to the DynamicStruct: nothing, one named
\* value, or a panic.
BlobTargets == {"Vec2", "Vec3", "Vec4"}

StageValue(col, name, rt, nn, got) ==
    IF rt = "panic" \/ ~got.ok THEN [ok |-> FALSE, staged |-> <<>>]
    ELSE IF col.sql_type.kind = "Blob"
    THEN IF col.ty \in BlobTargets
         THEN [ok |-> TRUE,
               staged |-> << <<name, Val(Optional(col.ty, nn),
                                         from_blob(col.ty, got.v))>> >>]
         ELSE [ok |-> TRUE, staged |-> <<>>]
    ELSE [ok |-> TRUE, staged |-> << <<name, Val(Optional(rt, nn), got.v)>> >>]

StageMapped(col, name, rt, sv) ==
    StageValue(col, name, rt, col.sql_type.not_null, FromSql(rt, sv))

\* A variant in which a column without an entry fails the row.
UnmappedFails(g, name, sv) ==
    IF ~g.found THEN [ok |-> FALSE, staged |-> <<>>]
    ELSE StageMapped(g.col, name, ReadType(g.col.sql_type), sv)

\* `None => info!("Could not map column {}.", name)`: nothing is staged.
StageFound(g, name, sv) ==
    IF ~g.found THEN [ok |-> TRUE, staged |-> <<>>]
    ELSE StageMapped(g.col, name, ReadType(g.col.sql_type), sv)

StageColumn(table_def, name, sv) == StageFound(TableGet(table_def, name), name, sv)

\* value.apply(dyn_type): fields are matched by name; a value of another
\* type than the field's panics.
RECURSIVE Apply(_, _)
Apply(value, dyn) ==
    IF dyn = <<>> THEN [ok |-> TRUE, value |-> value]
    ELSE LET name == Head(dyn)[1]
             v == Head(dyn)[2]
         IN  IF name \notin DOMAIN value.fields THEN Apply(value, Tail(dyn))
             ELSE IF value.fields[name].ty # v.ty THEN [ok |-> FALSE, value |-> value]
             ELSE Apply([value EXCEPT !.fields[name] = v], Tail(dyn))

ApplyStaged(T, cols) ==
    IF \E x \in DOMAIN cols : ~cols[x].ok
    THEN [ok |-> FALSE, value |-> DefaultInstance(T)]
    ELSE Apply(DefaultInstance(T), Flatten([x \in DOMAIN cols |-> cols[x].staged]))

Materialize(table_def, T, names, row) ==
    ApplyStaged(T, [x \in DOMAIN names |-> StageColumn(table_def, names[x], row[x])])

Collected(st, ran, made) ==
    IF \E i \in DOMAIN made : ~made[i].ok
    THEN PanicUnderGuard(st, ran)
    ELSE Out(Ok([i \in DOMAIN made |-> made[i].value]), st, ran)

QueryRows(st, table_def, T, ran, r) ==
    Collected(st, ran,
        [i \in DOMAIN r.rows |-> Materialize(table_def, T, r.names, r.rows[i])])

QueryOn(st, table_def, T, sql, parameter, ran) ==
    IF ~PrepareOk(st.db, sql) THEN Out(Err("Could not compile query!"), st, ran)
    ELSE IF BindPanics(sql, parameter) \/ Len(parameter) # ParameterCount(sql)
    THEN PanicUnderGuard(st, ran)
    ELSE QueryRows(st, table_def, T, ran, Step(st.db, sql, BoundValues(sql, parameter)))

query(st, table_def, T, sql, parameter) ==
    IF st.poisoned THEN Out(Err("poisoned lock: another task failed inside"), st, <<>>)
    ELSE IF st.connection = NoConnection THEN NotConnected(st)
    ELSE QueryOn(st, table_def, T, sql, parameter, <<Ran(sql, parameter)>>)

\* table_exists (plugin.rs 267-275).
Counted(q) ==
    IF q.result.status = "Ok"
    THEN IF q.result.value.some
         THEN Out(Ok(q.result.value.v > 0), q.st, q.ran)
         ELSE Out(Abort, q.st, q.ran)
    ELSE Out(Abort, q.st, q.ran)

table_exists(st, table_name) ==
    Counted(query_scalar(st, "i32", CountTables(table_name), <<>>))

SkipsExisting(exists) == exists

\* create_table (plugin.rs 369-384).
Created(e, x) ==
    IF x.result.status = "Ok"
    THEN Out(Ok("()"), x.st, e.ran \o x.ran)
    ELSE Out(x.result, x.st, e.ran \o x.ran)

CreateWith(e, table_sql) ==
    IF table_sql.status = "abort" THEN Out(Abort, e.st, e.ran)
    ELSE Created(e, execute(e.st, DdlStmt(table_sql.sql), <<>>))

CreateUnless(e, def) ==
    IF e.result.status # "Ok" THEN e
    ELSE IF SkipsExisting(e.result.value) THEN Out(Ok("()"), e.st, e.ran)
    ELSE CreateWith(e, get_table_sql(def))

create_table(st, def) == CreateUnless(table_exists(st, def.sql_name), def)

\* The loop of insert: the columns it lists, in fields.values() order.
RECURSIVE SelectSeq2(_, _)
SelectSeq2(s, keep) ==
    IF s = <<>> THEN <<>>
    ELSE (IF keep[1] THEN <<Head(s)>> ELSE <<>>) \o SelectSeq2(Tail(s), Tail(keep))

\* A variant of the loop without `if x.is_key() { continue; }`.
AllColumns(def) == def.fields

NonKeyColumns(def) ==
    SelectSeq2(def.fields, [i \in DOMAIN def.fields |-> ~is_key(def.fields[i])])

InsertColumns(def) == NonKeyColumns(def)

\* insert::<T> (plugin.rs 386-423).
InsertWrapped(st, table_name, names_vec, params_vec, wrapped_values) ==
    IF \E i \in DOMAIN wrapped_values : ~wrapped_values[i].ok
    THEN Out(Abort, st, <<>>)
    ELSE execute(st, InsertStmt(table_name, names_vec, params_vec), wrapped_values)

InsertListed(st, def, value, registry, listed) ==
    InsertWrapped(st, def.sql_name,
        [i \in DOMAIN listed |-> listed[i].sql_name],
        [i \in DOMAIN listed |-> "?"],
        [i \in DOMAIN listed |-> ValueWrapperBuild(value, listed[i].rust_name, registry)])

insert(st, def, value, registry) ==
    IF def.sql_name # value.type THEN Out(Abort, st, <<>>)
    ELSE InsertListed(st, def, value, registry, InsertColumns(def))

\* ------------------------------------------------------------------------
\* Spec: the API driven by its owner, one whole call per step.

State == [connection |-> connection, live |-> live, db |-> db, poisoned |-> poisoned]

\* Mutex unlocked.
NoCaller == 0
Callers == 1..NumCallers

NoCall == [op |-> "new", args |-> <<>>, result |-> Ok("()"), ran |-> <<>>,
           before |-> [connection |-> NoConnection, live |-> {}, db |-> EmptyDb,
                       poisoned |-> FALSE]]

InitDatabase ==
    /\ connection = NoConnection
    /\ poisoned = FALSE
    /\ live = {}
    /\ db = EmptyDb
    /\ last = NoCall

InitGuard ==
    /\ pc = [c \in Callers |-> "idle"]
    /\ req = [c \in Callers |-> <<"none">>]
    /\ holder = NoCaller

NoDdl == [status |-> "none", sql |-> <<>>]

Init ==
    /\ InitDatabase
    /\ InitGuard
    /\ table = TableOf("Sample", FieldPool, <<>>)
    /\ ddl = NoDdl

\* The call returns (or unwinds): the state it leaves and what it reported.
Finish(op, args, o) ==
    /\ \A n \in DOMAIN o.st.db : Len(o.st.db[n].rows) <= MaxRows
    /\ connection' = o.st.connection
    /\ live' = o.st.live
    /\ db' = o.st.db
    /\ poisoned' = o.st.poisoned
    /\ last' = [op |-> op, args |-> args, result |-> o.result, ran |-> o.ran,
                before |-> State]

TableNames == DOMAIN Structs

\* The CREATE TABLE the owner may issue by hand (run_test_1).
RawCreatePlayer ==
    DdlStmt(<<"CREATE TABLE '", "Player", "'(",
              "id", " INTEGER PRIMARY KEY AUTOINCREMENT", ",",
              "name", " TEXT", " NOT NULL", ",",
              "deaths", " INTEGER", " NOT NULL", ");">>)

RawInsertPlayer == InsertStmt("Player", <<"name", "deaths">>, <<"?", "?">>)

Wrapped(v) == [ok |-> TRUE, reg_type |-> "Player", getter |-> v]

\* Statements with the parameters handed over with them.
ExecuteInputs ==
    {<<RawCreatePlayer, <<>> >>,
     <<Malformed, <<>> >>,
     <<RawInsertPlayer, <<Wrapped(Val("String", "Anne")), Wrapped(Val("i32", 30))>> >>,
     <<RawInsertPlayer, <<Wrapped(Val("String", "Anne"))>> >>}

QueryStatements ==
    {SelectAll(n) : n \in TableNames}
        \cup {SelectWhere("Player", "name", SqlText("Timo Beil")),
              SelectWhere("Pose", "label", SqlText("spawn")),
              Malformed}

ScalarStatements ==
    {CountTables(n) : n \in TableNames} \cup {SelectAll("Player"), Malformed}

\* Spec and SpecDDL leave the callers of SpecGuard where they are.
OwnerOnly == UNCHANGED <<pc, req, holder, table, ddl>>

Open ==
    /\ \E path \in Paths : Finish("open", <<path>>, open(State, path))
    /\ OwnerOnly

Close ==
    /\ Finish("close", <<>>, close(State))
    /\ OwnerOnly

Execute ==
    /\ \E x \in ExecuteInputs : Finish("execute", x, execute(State, x[1], x[2]))
    /\ OwnerOnly

QueryScalar ==
    /\ \E q \in ScalarStatements :
            Finish("query_scalar", <<q>>, query_scalar(State, "i32", q, <<>>))
    /\ OwnerOnly

Query ==
    /\ \E def \in ApiDefinitions, q \in QueryStatements :
            Finish("query", <<def, q>>, query(State, def, def.sql_name, q, <<>>))
    /\ OwnerOnly

TableExists ==
    /\ \E n \in TableNames : Finish("table_exists", <<n>>, table_exists(State, n))
    /\ OwnerOnly

CreateTable ==
    /\ \E def \in ApiDefinitions :
            Finish("create_table", <<def>>, create_table(State, def))
    /\ OwnerOnly

Insert ==
    /\ \E def \in ApiDefinitions, value \in Instances :
            Finish("insert", <<def, value>>,
                   insert(State, def, value, AppTypeRegistry))
    /\ OwnerOnly

Next ==
    \/ Open
    \/ Close
    \/ Execute
    \/ QueryScalar
    \/ Query
    \/ TableExists
    \/ CreateTable
    \/ Insert

Spec == Init /\ [][Next]_vars

\* ------------------------------------------------------------------------
\* SpecDDL: get_table_sql applied to every bounded table definition.

InitDDL ==
    /\ InitDatabase
    /\ InitGuard
    /\ table \in TableDefinitions \cup PlayerDefinitions
    /\ ddl = NoDdl

Generate ==
    /\ ddl = NoDdl
    /\ ddl' = get_table_sql(table)
    /\ UNCHANGED <<connection, poisoned, live, db, last, pc, req, holder, table>>

NextDDL == Generate

SpecDDL == InitDDL /\ [][NextDDL]_vars

\* ------------------------------------------------------------------------
\* SpecInteger: an integer field bound by to_sql and read back by query's
\* arm for the field's width.

EdgeBytes == {0, 1, ByteBase \div 2 - 1, ByteBase \div 2, ByteBase - 1}

\* Bit patterns of n bytes: all of them for one byte, the edges for more.
Patterns(n) ==
    IF n = 1 THEN {<<b>> : b \in 0..(ByteBase - 1)}
    ELSE {<<top>> \o Filled(n - 2, mid) \o <<low>> :
            top \in EdgeBytes, mid \in {0, ByteBase - 1}, low \in EdgeBytes}

\* The value of type ty whose bit pattern is p.
ValueOf(ty, p) ==
    IF ty \in UnsignedTypes
    THEN Wide(FALSE, Filled(I64Bytes - Len(p), 0) \o p)
    ELSE I64Value(Widen(ty, Filled(I64Bytes - Len(p), 0) \o p))

IntegerValues(ty) == {ValueOf(ty, p) : p \in Patterns(WidthBytes(ty))}

\* row.get_unwrap::<usize, T>(x) on the stored integer.
ReadBack(got) == IF got.ok THEN Ok(got.v) ELSE Abort

StoreInteger ==
    /\ \E ty \in IntegerTypes :
        \E x \in IntegerValues(ty) :
            last' = [op |-> "to_sql", args |-> <<ty, x>>,
                     result |-> ReadBack(WideFromSql(ty, WideAsI64(ty, x))),
                     ran |-> <<SqlInteger(WideAsI64(ty, x))>>,
                     before |-> State]
    /\ UNCHANGED <<connection, poisoned, live, db, pc, req, holder, table, ddl>>

NextInteger == StoreInteger

SpecInteger == Init /\ [][NextInteger]_vars

\* ------------------------------------------------------------------------
\* SpecGuard: callers sharing the database, interleaved at every
\* self.connection.lock().  A caller announces its call, takes the guard,
\* and runs the body and drops the guard in one step.

GuardRequests ==
    {<<"open", GoodPath>>, <<"open", BadPath>>, <<"close">>,
     <<"execute", RawCreatePlayer, <<>> >>, <<"execute", Malformed, <<>> >>,
     <<"query_scalar", CountTables("Player")>>,
     <<"query", TableOf("Player", PlayerFields, <<1, 2, 3, 4>>), SelectAll("Player")>>}

Run(r, st) ==
    CASE r[1] = "open" -> open(st, r[2])
      [] r[1] = "close" -> close(st)
      [] r[1] = "execute" -> execute(st, r[2], r[3])
      [] r[1] = "query_scalar" -> query_scalar(st, "i32", r[2], <<>>)
      [] r[1] = "query" -> query(st, r[2], r[2].sql_name, r[3], <<>>)

\* A variant in which lock() never blocks.
GuardIgnored(h) == TRUE

\* Mutex::lock blocks while another caller holds the guard.
GuardFree(h) == h = NoCaller

Call(c) ==
    /\ pc[c] = "idle"
    /\ \E r \in GuardRequests : req' = [req EXCEPT ![c] = r]
    /\ pc' = [pc EXCEPT ![c] = "waiting"]
    /\ UNCHANGED <<connection, poisoned, live, db, last, holder, table, ddl>>

\* lock() returns Ok(guard).
Lock(c) ==
    /\ pc[c] = "waiting"
    /\ GuardFree(holder)
    /\ ~poisoned
    /\ holder' = c
    /\ pc' = [pc EXCEPT ![c] = "inside"]
    /\ UNCHANGED <<connection, poisoned, live, db, last, req, table, ddl>>

\* lock() returns Err(PoisonError): the call takes its Err arm and ends.
LockPoisoned(c) ==
    /\ pc[c] = "waiting"
    /\ GuardFree(holder)
    /\ poisoned
    /\ Finish(req[c][1], Tail(req[c]), Run(req[c], State))
    /\ pc' = [pc EXCEPT ![c] = "idle"]
    /\ UNCHANGED <<req, holder, table, ddl>>

\* The body runs under the guard; returning or unwinding drops the guard.
Return(c) ==
    /\ pc[c] = "inside"
    /\ Finish(req[c][1], Tail(req[c]), Run(req[c], State))
    /\ holder' = NoCaller
    /\ pc' = [pc EXCEPT ![c] = "idle"]
    /\ UNCHANGED <<req, table, ddl>>

NextGuard ==
    \/ \E c \in Callers : Call(c)
    \/ \E c \in Callers : Lock(c)
    \/ \E c \in Callers : LockPoisoned(c)
    \/ \E c \in Callers : Return(c)

SpecGuard == Init /\ [][NextGuard]_vars

\* ========================================================================
\* Properties.

Contains(seq, sub) ==
    \E i \in 0..(Len(seq) - Len(sub)) : SubSeq(seq, i + 1, i + Len(sub)) = sub

\* The column clauses of a CREATE TABLE statement, split at its commas.
StatementClauses(sql) ==
    IF Len(sql) <= 4 THEN <<>>
    ELSE SplitOn(SubSeq(sql, 4, Len(sql) - 1), CommaTokens)

\* The column names of a definition by declared order.
DeclaredNames(t) ==
    [i \in DOMAIN t.fields |->
        (CHOOSE c \in Range(t.fields) : c.order = i - 1).sql_name]

ClauseOf(sql, name) ==
    LET cl == StatementClauses(sql)
    IN  cl[CHOOSE i \in DOMAIN cl : cl[i] # <<>> /\ cl[i][1] = name]

Implemented(t) ==
    \A i \in DOMAIN t.fields : t.fields[i].sql_type.kind \notin UnimplementedKinds

\* ---- C1 ----------------------------------------------------------------
\* C1: the connection follows the state machine: a successful open leaves
\* the database Open; a failed open from Closed stays Closed; close from
\* Open leaves it Closed; close from Closed succeeds and stays Closed;
\* execute, query and query_scalar never change whether a connection is held.
C1_ConnectionStateMachine ==
    /\ (last.op = "open" /\ last.result.status = "Ok") => connection # NoConnection
    /\ (last.op = "open" /\ last.result.status # "Ok"
            /\ last.before.connection = NoConnection) => connection = NoConnection
    /\ (last.op = "close" /\ last.before.connection # NoConnection)
            => connection = NoConnection
    /\ (last.op = "close" /\ last.before.connection = NoConnection)
            => (last.result.status = "Ok" /\ connection = NoConnection)
    /\ last.op \in {"execute", "query", "query_scalar"}
            => ((connection = NoConnection) <=> (last.before.connection = NoConnection))

\* The same transitions, for calls that found the guard healthy.
C1_WhenGuardHealthy == ~last.before.poisoned => C1_ConnectionStateMachine

\* ---- C2 ----------------------------------------------------------------
\* The call reached Connection::open and the engine refused the path.
ConnectFailed ==
    last.op = "open" /\ ~last.before.poisoned /\ ~CanConnect(last.args[1])

\* C2: when open fails to connect it returns an error, and the connection
\* held (and the set of live handles) is what it was before the call.
C2_FailedOpenChangesNothing ==
    /\ ConnectFailed => last.result.status = "Err"
    /\ (last.op = "open" /\ last.result.status # "Ok") =>
            /\ connection = last.before.connection
            /\ live = last.before.live
            /\ db = last.before.db

\* An Open database whose open of an unusable path just failed.
C2_Witness == ConnectFailed /\ last.before.connection # NoConnection

\* ---- C3 ----------------------------------------------------------------
ClosedCall ==
    /\ last.op \in {"execute", "query", "query_scalar", "table_exists"}
    /\ last.before.connection = NoConnection

\* C3 as stated: a statement call without a connection runs no statement
\* and always ends in an abort.
C3_ClosedCallAborts ==
    ClosedCall => (last.ran = <<>> /\ last.result.status = "abort")

\* C3, amended: a statement call without a connection runs no statement,
\* changes nothing and never succeeds; it aborts, except that execute and
\* query return an error when the guard is already poisoned.
C3_ClosedCallNeverSucceeds ==
    ClosedCall =>
        /\ last.ran = <<>>
        /\ db = last.before.db
        /\ last.result.status \in {"Err", "abort"}
        /\ last.result.status = "Err"
                <=> (last.before.poisoned /\ last.op \in {"execute", "query"})

\* execute on a Closed database whose guard an earlier abort poisoned.
C3_Witness == ClosedCall /\ last.op = "execute" /\ last.before.poisoned

\* ---- C4 ----------------------------------------------------------------
Inside == {c \in Callers : pc[c] = "inside"}

\* C4: the database holds at most one live connection, at most one caller
\* is inside an operation on it, and a caller holds the guard exactly while
\* it is inside.
C4_OneConnectionOneCaller ==
    /\ Cardinality(live) <= 1
    /\ live = (IF connection = NoConnection THEN {} ELSE {connection})
    /\ Cardinality(Inside) <= 1
    /\ \A c \in Callers : pc[c] = "inside" <=> holder = c

\* One caller inside an operation on the open connection, another waiting.
C4_Witness ==
    \E c, d \in Callers :
        /\ pc[c] = "inside" /\ pc[d] = "waiting"
        /\ connection # NoConnection
        /\ req[c][1] = "execute" /\ req[d][1] = "open"

\* A call changes `last`; naming the operation first lets two calls be told
\* apart before their results, which differ in kind, are compared.
callVars == <<last.op, vars>>

\* ---- C5 ----------------------------------------------------------------
\* The previous call created the table `name`.
JustCreated(name) ==
    /\ last.result.status = "Ok"
    /\ \/ last.op = "create_table" /\ last.args[1].sql_name = name
       \/ /\ last.op = "execute"
          /\ last.args[1].kind = "ddl"
          /\ ParseCreate(last.args[1].sql).name = name

C5_Step ==
    last'.op = "table_exists" =>
        /\ (connection # NoConnection /\ last'.args[1] \notin DOMAIN db)
                => (last'.result.status = "Ok" /\ last'.result.value = FALSE)
        /\ JustCreated(last'.args[1])
                => (last'.result.status = "Ok" /\ last'.result.value = TRUE)

\* C5: on an open database without the table, table_exists returns false;
\* right after a successful create_table (or CREATE TABLE through execute)
\* it returns true.
C5_TableExistsBeforeAndAfter == [][C5_Step]_callVars

C5_HealthyStep == ~poisoned => C5_Step

\* The same, for calls that find the guard healthy.
C5_WhenGuardHealthy == [][C5_HealthyStep]_callVars

\* ---- C6 ----------------------------------------------------------------
NoDdlRan(call) == \A k \in DOMAIN call.ran : call.ran[k].stmt.kind # "ddl"

C6_Step ==
    last'.op = "create_table" =>
        /\ (connection # NoConnection /\ last'.args[1].sql_name \in DOMAIN db)
                => (last'.result.status = "Ok" /\ NoDdlRan(last') /\ db' = db)
        /\ (last.op = "create_table" /\ last.result.status = "Ok"
                /\ last'.args = last.args)
                => (last'.result.status = "Ok" /\ NoDdlRan(last') /\ db' = db)

\* C6: create_table of a table that exists returns success, runs no DDL and
\* leaves schema and rows alone; a second create_table with the same
\* definition succeeds and creates nothing.
C6_CreateExistingIsNoOp == [][C6_Step]_callVars

C6_HealthyStep == ~poisoned => C6_Step

\* The same, for calls that find the guard healthy.
C6_WhenGuardHealthy == [][C6_HealthyStep]_callVars

\* ---- C7 ----------------------------------------------------------------
NonKeyEqual(def, a, b) ==
    \A i \in DOMAIN def.fields :
        ~def.fields[i].key
            => a.fields[def.fields[i].rust_name] = b.fields[def.fields[i].rust_name]

\* q selects the rows whose non-key column equals what `value` holds there.
QueriesBack(def, q, value) ==
    /\ q.kind = "select"
    /\ q.table = def.sql_name
    /\ q.where # <<>>
    /\ \E i \in DOMAIN def.fields :
            /\ ~def.fields[i].key
            /\ def.fields[i].sql_name = q.where[1]
            /\ to_sql([getter |-> value.fields[def.fields[i].rust_name]]).ok
            /\ to_sql([getter |-> value.fields[def.fields[i].rust_name]]).value
                    = q.where[2]

MatchingRows(q) ==
    {r \in DOMAIN db[q.table].rows : Matches(db[q.table], db[q.table].rows[r], q.where)}

C7_Step ==
    (/\ last.op = "insert" /\ last.result.status = "Ok"
     /\ last'.op = "query"
     /\ last'.args[1] = last.args[1]
     /\ QueriesBack(last.args[1], last'.args[2], last.args[2]))
        => /\ last'.result.status = "Ok"
           /\ Len(last'.result.value) = Cardinality(MatchingRows(last'.args[2]))
           /\ Len(last'.result.value) >= 1
           /\ \A i \in DOMAIN last'.result.value :
                NonKeyEqual(last.args[1], last'.result.value[i], last.args[2])

\* C7: an instance inserted and queried back by a non-key field comes back
\* equal in every non-key field, one instance per matching row.
C7_RoundTrip == [][C7_Step]_callVars

C7_PlayerStep == last.args[1].sql_name = "Player" => C7_Step

\* The round trip of the Player struct (run_test_3).
C7_PlayerRoundTrip == [][last.op = "insert" => C7_PlayerStep]_callVars

\* ---- C8 ----------------------------------------------------------------
NonKeyNames(def) ==
    {def.fields[i].sql_name : i \in {j \in DOMAIN def.fields : ~def.fields[j].key}}

FieldFor(def, column) ==
    (CHOOSE c \in Range(def.fields) : c.sql_name = column).rust_name

IsInsertOf(def, value, r) ==
    /\ r.stmt.kind = "insert"
    /\ r.stmt.table = def.sql_name
    /\ Range(r.stmt.columns) = NonKeyNames(def)
    /\ Len(r.stmt.columns) = Cardinality(NonKeyNames(def))
    /\ r.stmt.placeholders = [i \in DOMAIN r.stmt.columns |-> "?"]
    /\ DOMAIN r.params = DOMAIN r.stmt.columns
    /\ \A i \in DOMAIN r.params :
            r.params[i].getter = value.fields[FieldFor(def, r.stmt.columns[i])]

RowsOf(d, name) == IF name \in DOMAIN d THEN Len(d[name].rows) ELSE 0

\* C8: insert hands the engine one INSERT over exactly the non-key columns,
\* with one placeholder and one wrapped field value per column, in the
\* same order, and returns the affected-row count execute reports.
C8_InsertStatement ==
    last.op = "insert" =>
        /\ Len(last.ran) <= 1
        /\ \A k \in DOMAIN last.ran : IsInsertOf(last.args[1], last.args[2], last.ran[k])
        /\ (last.before.connection # NoConnection /\ ~last.before.poisoned
                /\ last.args[1].sql_name = last.args[2].type) => Len(last.ran) = 1
        /\ last.result.status = "Ok" =>
                /\ Len(last.ran) = 1
                /\ last.result.value
                        = RowsOf(db, last.args[1].sql_name)
                            - RowsOf(last.before.db, last.args[1].sql_name)
                /\ last.result.value = 1

\* A successful insert through a definition stored out of declared order.
C8_Witness ==
    /\ last.op = "insert" /\ last.result.status = "Ok"
    /\ last.args[1].fields[1].order # 0
    /\ last.args[1].fields[2].key

\* ---- C9 ----------------------------------------------------------------
\* C9: for a definition of N implemented columns get_table_sql returns a
\* CREATE TABLE statement of exactly N comma-separated clauses, the i-th
\* being the clause of the column declared i-th, however the map stores them.
C9_ClausesInDeclaredOrder ==
    ddl # NoDdl =>
        /\ ddl.status = "Ok" <=> Implemented(table)
        /\ ddl.status = "Ok" =>
            /\ SubSeq(ddl.sql, 1, 3) = <<"CREATE TABLE '", table.sql_name, "'(">>
            /\ ddl.sql[Len(ddl.sql)] = ");"
            /\ Len(StatementClauses(ddl.sql)) = Len(table.fields)
            /\ \A i \in DOMAIN table.fields :
                    /\ StatementClauses(ddl.sql)[i] # <<>>
                    /\ StatementClauses(ddl.sql)[i][1] = DeclaredNames(table)[i]

\* Three columns stored in an order that is not the declared one.
C9_Witness ==
    /\ ddl.status = "Ok"
    /\ Len(table.fields) = MaxCols
    /\ table.fields[1].order > table.fields[2].order

\* ---- C10 ---------------------------------------------------------------
\* C10: every UnsignedInteger column's clause contains CHECK(name >= 0) and
\* every Boolean column's clause contains CHECK(name >= 0 AND name < 2),
\* name being the column's bare SQL name.
C10_CheckConstraints ==
    ddl.status = "Ok" =>
        \A i \in DOMAIN table.fields :
            LET col == table.fields[i]
                name == col.sql_name
            IN  /\ col.sql_type.kind = "UnsingedInteger"
                    => Contains(ClauseOf(ddl.sql, name), <<" CHECK(", name, " >= 0)">>)
                /\ col.sql_type.kind = "Boolean"
                    => Contains(ClauseOf(ddl.sql, name),
                                <<" CHECK(", name, " >= 0 AND ", name, " < 2)">>)

\* The Boolean half of C10 on its own.
C10_BooleanCheck ==
    ddl.status = "Ok" =>
        \A i \in DOMAIN table.fields :
            table.fields[i].sql_type.kind = "Boolean"
                => Contains(ClauseOf(ddl.sql, table.fields[i].sql_name),
                            <<" CHECK(", table.fields[i].sql_name, " >= 0 AND ",
                              table.fields[i].sql_name, " < 2)">>)

\* ---- C11 ---------------------------------------------------------------
PrimaryKeyToken == " INTEGER PRIMARY KEY AUTOINCREMENT"

RendersAsPrimaryKey(sql, name) == Contains(ClauseOf(sql, name), <<PrimaryKeyToken>>)

\* C11: a column's clause renders INTEGER PRIMARY KEY AUTOINCREMENT exactly
\* when the column is the key column.
C11_PrimaryKeyIffKey ==
    ddl.status = "Ok" =>
        \A i \in DOMAIN table.fields :
            RendersAsPrimaryKey(ddl.sql, table.fields[i].sql_name)
                <=> table.fields[i].key

\* What the code does: exactly the key columns of kind Integer render so.
C11_IntegerKeysOnly ==
    ddl.status = "Ok" =>
        \A i \in DOMAIN table.fields :
            RendersAsPrimaryKey(ddl.sql, table.fields[i].sql_name)
                <=> (table.fields[i].key /\ table.fields[i].sql_type.kind = "Integer")

\* ---- C12 ---------------------------------------------------------------
LegalWidths(kind) ==
    CASE kind \in {"Integer", "UnsingedInteger"} -> {8, 16, 32, 64}
      [] kind = "Float" -> {32, 64}

IllegalWidth(col) ==
    /\ col.sql_type.kind \in {"Integer", "UnsingedInteger", "Float"}
    /\ col.sql_type.bits \notin LegalWidths(col.sql_type.kind)

\* C12: a definition holding a Float column whose width is not 32 or 64, or
\* an integer column whose width is not 8, 16, 32 or 64, gets no CREATE
\* TABLE statement from get_table_sql.
C12_IllegalWidthRejected ==
    (ddl # NoDdl /\ \E i \in DOMAIN table.fields : IllegalWidth(table.fields[i]))
        => ddl.status # "Ok"

\* What the code does: the width never decides whether a statement is made.
C12_WidthIgnored ==
    ddl # NoDdl => (ddl.status = "Ok" <=> Implemented(table))

\* ---- C13 ---------------------------------------------------------------
PlayerGenerated == ddl # NoDdl /\ table \in PlayerDefinitions

\* C13 as stated: the Player DDL with the clauses separated by a single
\* comma and nothing else.
C13_PlayerDdlSingleComma ==
    PlayerGenerated =>
        /\ ddl.status = "Ok"
        /\ Render(ddl.sql) = "CREATE TABLE 'Player'(id INTEGER PRIMARY KEY AUTOINCREMENT,name TEXT NOT NULL,deaths INTEGER NOT NULL,email TEXT NOT NULL);"

\* C13, amended: the Player DDL is that statement with a comma and a line
\* feed between the clauses, for every order the map holds the columns in.
C13_PlayerDdl ==
    PlayerGenerated =>
        /\ ddl.status = "Ok"
        /\ Render(ddl.sql) = "CREATE TABLE 'Player'(id INTEGER PRIMARY KEY AUTOINCREMENT,\nname TEXT NOT NULL,\ndeaths INTEGER NOT NULL,\nemail TEXT NOT NULL);"

\* The Player DDL generated from a map holding the columns out of order.
C13_Witness ==
    /\ PlayerGenerated
    /\ ddl.status = "Ok"
    /\ table.fields[1].order > table.fields[2].order

\* ---- C14 ---------------------------------------------------------------
\* query_scalar found the guard healthy and a connection.
ScalarOnOpen ==
    /\ last.op = "query_scalar"
    /\ ~last.before.poisoned
    /\ last.before.connection # NoConnection

ScalarSelects ==
    /\ ScalarOnOpen
    /\ last.args[1].kind = "select"
    /\ last.args[1].table \in DOMAIN last.before.db

StoredRows == last.before.db[last.args[1].table].rows

\* C14: query_scalar on an open database returns Ok(None) when the query
\* yields no row, and otherwise Ok(Some(v)), v being the first column of the
\* first row, whether the query yields one row or several.
C14_ScalarFirstRow ==
    /\ ScalarSelects =>
            /\ last.result.status = "Ok"
            /\ db = last.before.db
            /\ StoredRows = <<>> => last.result.value = None
            /\ StoredRows # <<>> => last.result.value = Some(StoredRows[1][1].v)
    /\ (ScalarOnOpen /\ last.args[1].kind = "count_tables") =>
            /\ last.result.status = "Ok"
            /\ last.result.value
                    = Some(IF last.args[1].name \in DOMAIN last.before.db THEN 1 ELSE 0)

\* query_scalar over a table holding several rows.
C14_Witness == ScalarSelects /\ Len(StoredRows) > 1 /\ last.result.status = "Ok"

\* query_scalar over a table holding no row.
C14_NoRows == ScalarSelects /\ StoredRows = <<>>

\* ---- C15 ---------------------------------------------------------------
SupportedTypes == IntegerTypes \cup FloatTypes \cup TextTypes \cup BlobTypes

\* insert reached the engine with an instance holding, in a non-key column,
\* a field of a type the marshaler has no arm for.
BindsUnsupported ==
    /\ last.op = "insert"
    /\ ~last.before.poisoned
    /\ last.before.connection # NoConnection
    /\ last.args[1].sql_name = last.args[2].type
    /\ last.args[1].sql_name \in DOMAIN last.before.db
    /\ \E i \in DOMAIN last.args[1].fields :
            /\ ~last.args[1].fields[i].key
            /\ last.args[2].fields[last.args[1].fields[i].rust_name].ty
                    \notin SupportedTypes

ColumnIndex(tbl, name) == CHOOSE k \in DOMAIN tbl.columns : tbl.columns[k].name = name

\* The blob columns of the definition that the queried table holds.
BlobColumns(def, tbl) ==
    {i \in DOMAIN def.fields :
        /\ def.fields[i].sql_type.kind = "Blob"
        /\ \E k \in DOMAIN tbl.columns : tbl.columns[k].name = def.fields[i].sql_name}

\* Instance i of the result holds, in blob column c, what row i stores there.
BlobDecoded(def, tbl, q, got, i, c) ==
    got[i].fields[def.fields[c].rust_name]
        = Val(def.fields[c].ty,
              from_blob(def.fields[c].ty,
                        SelectRows(tbl, tbl.rows, q.where)[i]
                            [ColumnIndex(tbl, def.fields[c].sql_name)].v))

QueryReturned ==
    /\ last.op = "query"
    /\ last.result.status = "Ok"
    /\ last.args[2].kind = "select"

\* C15: an insert binding a field of an unsupported type fails and stores
\* nothing; every instance query returns holds in each blob field what the
\* row stores, never the default left in place of it.
C15_UnsupportedTypesFail ==
    /\ BindsUnsupported => (last.result.status # "Ok" /\ db = last.before.db)
    /\ QueryReturned =>
            \A i \in DOMAIN last.result.value :
                \A c \in BlobColumns(last.args[1], db[last.args[2].table]) :
                    BlobDecoded(last.args[1], db[last.args[2].table], last.args[2],
                                last.result.value, i, c)

\* What the code does: the insert aborts at bind time, and blob fields of
\* type Vec2, Vec3 and Vec4 are the ones query decodes.
C15_VectorBlobsOnly ==
    /\ BindsUnsupported => (last.result.status = "abort" /\ db = last.before.db)
    /\ QueryReturned =>
            \A i \in DOMAIN last.result.value :
                \A c \in BlobColumns(last.args[1], db[last.args[2].table]) :
                    IF last.args[1].fields[c].ty \in BlobTargets
                    THEN BlobDecoded(last.args[1], db[last.args[2].table],
                                     last.args[2], last.result.value, i, c)
                    ELSE last.result.value[i].fields[last.args[1].fields[c].rust_name]
                            = DefaultOf(last.args[1].fields[c].ty)

\* ---- C16 ---------------------------------------------------------------
Converted == last.op = "to_sql"

\* C16: the integer to_sql stores equals the field's value, and read back
\* at the field's width it is that value again, for every value of every
\* integer type.
C16_IntegerLossless ==
    Converted =>
        /\ last.ran[1].v = last.args[2]
        /\ last.result.status = "Ok"
        /\ last.result.value = last.args[2]

\* A u64 with its top bit set: 2^63 and above.
AboveI64 == last.args[1] = "u64" /\ last.args[2].mag[1] >= ByteBase \div 2

\* What the code does: lossless below 2^63; a u64 from 2^63 on is stored as
\* a negative integer and cannot be read back.
C16_LosslessBelowSignBit ==
    Converted =>
        IF AboveI64
        THEN last.ran[1].v.neg /\ last.result.status = "abort"
        ELSE /\ last.ran[1].v = last.args[2]
             /\ last.result.status = "Ok"
             /\ last.result.value = last.args[2]

\* ---- C17 ---------------------------------------------------------------
\* execute found the guard healthy and a connection.
ExecuteOnOpen ==
    /\ last.op = "execute"
    /\ ~last.before.poisoned
    /\ last.before.connection # NoConnection

\* C17: execute on an open database returns the affected-row count or an
\* error, never aborts, and leaves the connection held and the guard usable.
C17_ExecuteAlwaysReturns ==
    ExecuteOnOpen =>
        /\ last.result.status \in {"Ok", "Err"}
        /\ last.result.status = "Err" => db = last.before.db
        /\ connection = last.before.connection
        /\ ~poisoned

\* What the code does: a statement prepare rejects, or a parameter to_sql
\* has no arm for, aborts the call and poisons the guard; every other
\* statement returns, with the connection kept.
C17_AbortsOnPrepare ==
    ExecuteOnOpen =>
        /\ connection = last.before.connection
        /\ db # last.before.db => last.result.status = "Ok"
        /\ IF \/ ~PrepareOk(last.before.db, last.args[1])
              \/ BindPanics(last.args[1], last.args[2])
           THEN last.result.status = "abort" /\ poisoned
           ELSE last.result.status \in {"Ok", "Err"} /\ ~poisoned

\* ---- C19 ---------------------------------------------------------------
\* C19: whenever open returns success the database holds a live connection
\* afterwards, whatever happened before, a poisoned guard included.
C19_OpenSuccessConnects ==
    (last.op = "open" /\ last.result.status = "Ok") =>
        /\ connection # NoConnection
        /\ connection \in live

\* What the code does: open connects exactly when it gets the guard.
C19_ConnectsUnlessPoisoned ==
    (last.op = "open" /\ last.result.status = "Ok") =>
        IF last.before.poisoned
        THEN connection = last.before.connection /\ poisoned
        ELSE connection # NoConnection /\ live = {connection}

\* ---- C18 ---------------------------------------------------------------
Unmapped(def, tbl) ==
    {k \in DOMAIN tbl.columns : ~TableGet(def, tbl.columns[k].name).found}

\* The result columns that have an entry, of a kind other than Blob.
MappedPlain(def, tbl) ==
    {k \in DOMAIN tbl.columns :
        /\ TableGet(def, tbl.columns[k].name).found
        /\ TableGet(def, tbl.columns[k].name).col.sql_type.kind # "Blob"}

\* query selected from a table holding a column the definition lacks.
UnmappedQuery ==
    /\ last.op = "query"
    /\ ~last.before.poisoned
    /\ last.before.connection # NoConnection
    /\ last.args[2].kind = "select"
    /\ last.args[2].table \in DOMAIN last.before.db
    /\ Unmapped(last.args[1], last.before.db[last.args[2].table]) # {}

\* Instance `got` holds what `row` stores in every mapped column, and the
\* default in every field no mapped column provides.
MaterializedFrom(def, tbl, row, got) ==
    /\ \A k \in MappedPlain(def, tbl) :
            LET col == TableGet(def, tbl.columns[k].name).col
            IN  col.rust_name \in DOMAIN got.fields
                    => got.fields[col.rust_name] = Val(col.ty, row[k].v)
    /\ \A f \in DOMAIN got.fields :
            (\A k \in DOMAIN tbl.columns :
                TableGet(def, tbl.columns[k].name).found
                    => TableGet(def, tbl.columns[k].name).col.rust_name # f)
                => got.fields[f] = DefaultInstance(got.type).fields[f]

MaterializedAll(def, tbl, rows, got) ==
    /\ Len(got) = Len(rows)
    /\ \A i \in DOMAIN got : MaterializedFrom(def, tbl, rows[i], got[i])

\* C18: a result column without an entry in the table definition is no
\* error: query returns one instance per result row, holding every mapped
\* column's value and the default in the fields nothing was mapped to.
C18_UnmappedColumnSkipped ==
    UnmappedQuery =>
        /\ last.result.status = "Ok"
        /\ MaterializedAll(last.args[1], db[last.args[2].table],
                           SelectRows(db[last.args[2].table],
                                      db[last.args[2].table].rows,
                                      last.args[2].where),
                           last.result.value)

\* Rows materialized through a definition that lacks some of their columns.
C18_Witness ==
    /\ UnmappedQuery
    /\ last.result.status = "Ok"
    /\ Len(last.result.value) > 0

====
